---- MODULE Spec2Model ----
(***************************************************************************)
(* Per-identity admission control: the sliding-window limiter of           *)
(* task_1.py (SlidingWindowRateLimiter) and the fixed-interval limiter of   *)
(* task_2.py (ThrottlingRateLimiter).  Time is counted in whole ticks; a    *)
(* call reads the clock where the code calls time.time().                   *)
(***************************************************************************)
EXTENDS Integers, Sequences, FiniteSets, TLC

\* ------------------------------------------------------------------ bounds
Users == {"u1", "u2"}
MaxTime == 5
MaxWindow == 3
MaxRequests == 2
MaxInterval == 3
\* the thread-level specification: last instant, and largest window, limit and interval
MaxThreadTime == 1
MaxThreadParam == 2
\* the specification whose clock can be set back: last instant Tick leads to
MaxBackTime == 2
\* the identity the threads' calls are for
ThreadUsers == {"u1"}

\* defaults of the constructors' signatures
DefaultWindow == 10
DefaultMaxRequests == 1
DefaultInterval == 10

VARIABLES
    kind,                 \* which limiter class was instantiated
    window_size,          \* SlidingWindowRateLimiter.window_size
    max_requests,         \* SlidingWindowRateLimiter.max_requests
    min_interval,         \* ThrottlingRateLimiter.min_interval
    user_records,         \* SlidingWindowRateLimiter.user_records : user -> deque
    user_last_timestamp,  \* ThrottlingRateLimiter.user_last_timestamp
    clock,                \* what time.time() returns
    lastOp,               \* the call that returned last at this instant, and what it returned
    admitted,             \* history: per user, the admitted records' timestamps e with clock - e < Horizon
    touched,              \* history: users some operation was called for
    rejUntil,             \* history: per user, the rejection whose (time + wait hint) is still ahead
    threads               \* per thread: where its call stands, and the call's local variables

vars == <<kind, window_size, max_requests, min_interval, user_records,
          user_last_timestamp, clock, lastOp, admitted, touched, rejUntil,
          threads>>

config == <<kind, window_size, max_requests, min_interval>>

\* ------------------------------------------------------------- dictionaries
EmptyDict == [x \in {} |-> 0]

DictDel(d, k) == [x \in (DOMAIN d) \ {k} |-> d[x]]

DictPut(d, k, v) == [x \in (DOMAIN d) \cup {k} |-> IF x = k THEN v ELSE d[x]]

Max2(a, b) == IF a >= b THEN a ELSE b

\* ------------------------------------------------------ task_1.py, pure parts
\* the while loop of _cleanup_window: popleft while the oldest entry has left the window
\* variant: an entry exactly window_size old is kept
ExpiredStrict(entry, current_time) == (current_time - entry) > window_size

\* the condition of the while loop of _cleanup_window
Expired(entry, current_time) == (current_time - entry) >= window_size

\* variant: the whole deque is cleared once its oldest entry has expired
PopExpiredClear(window, current_time) ==
    IF window # <<>> /\ Expired(Head(window), current_time) THEN <<>> ELSE window

\* variant: an if in place of the while, at most one entry is popped
PopExpiredOnce(window, current_time) ==
    IF window # <<>> /\ Expired(Head(window), current_time) THEN Tail(window) ELSE window

RECURSIVE PopExpired(_, _)
PopExpired(window, current_time) ==
    IF window # <<>> /\ Expired(Head(window), current_time)
    THEN PopExpired(Tail(window), current_time)
    ELSE window

\* variant: the emptied deque is left in the store
CleanupWindowKeepEmpty(records, user_id, current_time) ==
    IF user_id \notin DOMAIN records
    THEN records
    ELSE DictPut(records, user_id, PopExpired(records[user_id], current_time))

\* _cleanup_window: the store after the cleanup
CleanupWindow(records, user_id, current_time) ==
    IF user_id \notin DOMAIN records
    THEN records
    ELSE LET window == PopExpired(records[user_id], current_time)
         IN  IF window = <<>>
             THEN DictDel(records, user_id)
             ELSE DictPut(records, user_id, window)

\* the return expression of can_send_message, on the store after cleanup
SwUnderLimit(records, user_id) ==
    \/ user_id \notin DOMAIN records
    \/ Len(records[user_id]) < max_requests

\* variant: the length check admits one entry too many
SwHasRoomInclusive(window) == Len(window) <= max_requests

\* the length check of record_message
SwHasRoom(window) == Len(window) < max_requests

\* variant: the timestamp is appended whether or not there is room
SwRecordStoreAlways(records, user_id, now) ==
    IF user_id \notin DOMAIN records
    THEN DictPut(records, user_id, <<now>>)
    ELSE DictPut(records, user_id, Append(records[user_id], now))

\* variant: appendleft in place of append
SwRecordStoreFront(records, user_id, now) ==
    LET window == IF user_id \notin DOMAIN records THEN <<>> ELSE records[user_id]
    IN  IF Len(window) < max_requests
        THEN DictPut(records, user_id, <<now>> \o window)
        ELSE DictPut(records, user_id, window)

\* record_message after its cleanup: creates the deque, appends when there is room
SwRecordStore(records, user_id, now) ==
    LET created == IF user_id \notin DOMAIN records
                   THEN DictPut(records, user_id, <<>>)
                   ELSE records
    IN  IF SwHasRoom(created[user_id])
        THEN DictPut(created, user_id, Append(created[user_id], now))
        ELSE created

SwRecordResult(records, user_id) ==
    IF user_id \notin DOMAIN records THEN SwHasRoom(<<>>) ELSE SwHasRoom(records[user_id])

\* time_until_next_allowed after its cleanup: the error it raises, if any
SwWaitError(records, user_id) ==
    IF user_id \in DOMAIN records /\ records[user_id] = <<>> THEN "IndexError" ELSE "none"

\* variant: the wait is counted from the newest entry, window[-1]
SwWaitNewest(records, user_id, now) ==
    IF user_id \notin DOMAIN records THEN 0
    ELSE IF records[user_id] = <<>> THEN 0
    ELSE Max2(window_size - (now - records[user_id][Len(records[user_id])]), 0)

\* time_until_next_allowed after its cleanup: the value it returns
SwWait(records, user_id, now) ==
    IF user_id \notin DOMAIN records THEN 0
    ELSE IF records[user_id] = <<>> THEN 0
    ELSE LET oldest == Head(records[user_id])
             elapsed == now - oldest
             wait == window_size - elapsed
         IN  Max2(wait, 0)

\* ------------------------------------------------------ task_2.py, pure parts
\* variant: a user is admitted only after more than min_interval
ThCanSendStrict(last, user_id, now) ==
    IF user_id \notin DOMAIN last THEN TRUE
    ELSE now - last[user_id] > min_interval

\* variant: one timestamp for all users, any user's recent message bars every user
ThCanSendGlobal(last, user_id, now) ==
    \A v \in DOMAIN last : (now - last[v]) >= min_interval

\* can_send_message of the throttling limiter, with the clock value it read
ThCanSend(last, user_id, now) ==
    IF user_id \notin DOMAIN last THEN TRUE
    ELSE LET elapsed == now - last[user_id]
         IN  elapsed >= min_interval

\* variant: an unknown user is treated as having just sent
ThWaitUnknownFull(last, user_id, now) ==
    IF user_id \notin DOMAIN last THEN min_interval
    ELSE Max2(min_interval - (now - last[user_id]), 0)

\* time_until_next_allowed of the throttling limiter, with the clock value it read
ThWait(last, user_id, now) ==
    IF user_id \notin DOMAIN last THEN 0
    ELSE LET elapsed == now - last[user_id]
             remaining == min_interval - elapsed
         IN  Max2(remaining, 0)

\* ---------------------------------------------------------------- histories
NoOp == [op |-> "none", user |-> "", now |-> 0, ok |-> FALSE, wait |-> 0,
         err |-> "none", popped |-> 0, fresh |-> FALSE, afterRej |-> FALSE,
         inWindow |-> 0, barred |-> FALSE, due |-> FALSE, lost |-> FALSE]

NoRej == [at |-> 0, until |-> 0]

Sliding == kind = "sliding"

Throttling == kind = "throttling"

\* the window the limiter's bound is about: window_size resp. min_interval
Horizon == IF kind = "sliding" THEN window_size ELSE min_interval

\* the admitted timestamps e of a history with now - e < Horizon
Recent(history, now) == SelectSeq(history, LAMBDA e : now - e < Horizon)

\* the history with one more admitted timestamp; a history already longer than any bound
\* a claim states is not extended further
Remember(history, e, now) ==
    IF Len(history) > max_requests + 1 THEN history ELSE Recent(Append(history, e), now)

\* a rejection's horizon, dropped once the clock has reached it
Ahead(r, now) == IF r.until >= now THEN r ELSE NoRej

\* the rejection horizon of u after a record_message(u) rejected at now with wait hint w:
\* the first rejection that set the horizon is kept
Rejected(r, now, w) == IF now + w > r.until THEN [at |-> now, until |-> now + w] ELSE r

\* what a call returned, and what was true of its user when it was made.
\* popped: entries its cleanup removed; fresh: no operation was called for u before;
\* afterRej: the call before it, at the same instant, was a rejected record_message(u);
\* inWindow: admitted records of u with now - e < Horizon; barred: inside the wait
\* hint of an earlier rejection of u; due: now is exactly the instant an earlier
\* rejection of u named (its time + its wait hint), no record admitted since; lost: the
\* admitted timestamp went into a deque that is no longer in the store
\* hint of an earlier rejection of u
Op(op, u, now, ok, wait, err, popped) ==
    [op |-> op, user |-> u, now |-> now, ok |-> ok, wait |-> wait, err |-> err,
     popped |-> popped,
     fresh |-> u \notin touched,
     afterRej |-> (lastOp.op = "record" /\ lastOp.user = u /\ ~lastOp.ok /\ lastOp.now = now),
     inWindow |-> Len(Recent(admitted[u], now)),
     barred |-> rejUntil[u].until > now,
     due |-> (rejUntil[u].at < now /\ rejUntil[u].until = now),
     lost |-> FALSE]

\* how many entries of u the cleanup removed
Popped(before, after, u) ==
    (IF u \in DOMAIN before THEN Len(before[u]) ELSE 0)
    - (IF u \in DOMAIN after THEN Len(after[u]) ELSE 0)

\* -------------------------------------------------------------- construction
SlidingWindowInit(ws, mr) ==
    /\ kind = "sliding"
    /\ window_size = ws
    /\ max_requests = mr
    /\ min_interval = DefaultInterval
    /\ user_records = EmptyDict
    /\ user_last_timestamp = EmptyDict

ThrottlingInit(mi) ==
    /\ kind = "throttling"
    /\ window_size = DefaultWindow
    /\ max_requests = DefaultMaxRequests
    /\ min_interval = mi
    /\ user_records = EmptyDict
    /\ user_last_timestamp = EmptyDict

Threads == {"t1", "t2"}

NoRef == [st |-> "none", items |-> <<>>]

Idle == [pc |-> "idle", op |-> "", user |-> "", now |-> 0, win |-> NoRef]

HistoryInit ==
    /\ clock = 0
    /\ threads = [t \in Threads |-> Idle]
    /\ lastOp = NoOp
    /\ admitted = [u \in Users |-> <<>>]
    /\ touched = {}
    /\ rejUntil = [u \in Users |-> NoRej]

\* limiters configured as documented: window_size > 0, max_requests >= 1, min_interval > 0
Init ==
    /\ \/ \E ws \in 1..MaxWindow, mr \in 1..MaxRequests : SlidingWindowInit(ws, mr)
       \/ \E mi \in 1..MaxInterval : ThrottlingInit(mi)
    /\ HistoryInit

\* arguments a caller may pass besides the documented ones
InvalidParams == {-1, 0}

\* limiters constructed from any arguments
InitAny ==
    /\ \/ \E ws \in InvalidParams \cup (1..MaxWindow),
             mr \in InvalidParams \cup (1..MaxRequests) : SlidingWindowInit(ws, mr)
       \/ \E mi \in InvalidParams \cup (1..MaxInterval) : ThrottlingInit(mi)
    /\ HistoryInit

\* ---------------------------------------------------------------- the clock
Tick ==
    /\ clock < MaxTime
    /\ clock' = clock + 1
    /\ lastOp' = NoOp
    /\ admitted' = [u \in Users |-> Recent(admitted[u], clock + 1)]
    /\ rejUntil' = [u \in Users |-> Ahead(rejUntil[u], clock + 1)]
    /\ UNCHANGED <<config, threads, user_records, user_last_timestamp, touched>>

\* time.time() is the wall clock: the deployment may set it back between two calls
ClockStepsBack ==
    /\ clock > 0
    /\ clock' = clock - 1
    /\ lastOp' = NoOp
    /\ UNCHANGED <<config, threads, user_records, user_last_timestamp, admitted, touched,
                   rejUntil>>

\* ------------------------------------------------- SlidingWindowRateLimiter
SwCanSendMessage(u) ==
    /\ kind = "sliding"
    /\ LET now == clock
           cleaned == CleanupWindow(user_records, u, now)
       IN  /\ user_records' = cleaned
           /\ lastOp' = Op("can_send", u, now, SwUnderLimit(cleaned, u), 0, "none",
                           Popped(user_records, cleaned, u))
    /\ touched' = touched \cup {u}
    /\ UNCHANGED <<config, threads, user_last_timestamp, clock, admitted, rejUntil>>

SwRecordMessage(u) ==
    /\ kind = "sliding"
    /\ LET now == clock
           cleaned == CleanupWindow(user_records, u, now)
           ok == SwRecordResult(cleaned, u)
           stored == SwRecordStore(cleaned, u, now)
       IN  /\ user_records' = stored
           /\ lastOp' = Op("record", u, now, ok, 0, "none", Popped(user_records, cleaned, u))
           /\ admitted' = IF ok THEN [admitted EXCEPT ![u] = Remember(@, now, now)]
                          ELSE admitted
           /\ rejUntil' = IF ok THEN [rejUntil EXCEPT ![u] = NoRej]
                          ELSE [rejUntil EXCEPT ![u] =
                                  Rejected(@, now, SwWait(CleanupWindow(stored, u, now), u, now))]
    /\ touched' = touched \cup {u}
    /\ UNCHANGED <<config, threads, user_last_timestamp, clock>>

SwTimeUntilNextAllowed(u) ==
    /\ kind = "sliding"
    /\ LET now == clock
           cleaned == CleanupWindow(user_records, u, now)
           wait == SwWait(cleaned, u, now)
       IN  /\ user_records' = cleaned
           /\ lastOp' = Op("time_until", u, now, FALSE, wait, SwWaitError(cleaned, u),
                           Popped(user_records, cleaned, u))
    /\ touched' = touched \cup {u}
    /\ UNCHANGED <<config, threads, user_last_timestamp, clock, admitted, rejUntil>>

\* ---------------------------------------------------- ThrottlingRateLimiter
ThCanSendMessage(u) ==
    /\ kind = "throttling"
    /\ lastOp' = Op("can_send", u, clock, ThCanSend(user_last_timestamp, u, clock), 0, "none", 0)
    /\ touched' = touched \cup {u}
    /\ UNCHANGED <<config, threads, user_records, user_last_timestamp, clock, admitted, rejUntil>>

\* the second time.time() of record_message may read a later clock than the first
ThRecordMessage(u) ==
    /\ kind = "throttling"
    /\ LET now == clock
           ok == ThCanSend(user_last_timestamp, u, now)
       IN  /\ lastOp' = Op("record", u, now, ok, 0, "none", 0)
           /\ IF ok
              THEN \E stamp \in now..(IF now < MaxTime THEN now + 1 ELSE now) :
                     /\ user_last_timestamp' = DictPut(user_last_timestamp, u, stamp)
                     /\ clock' = stamp
                     /\ admitted' = [v \in Users |->
                                      IF v = u THEN Remember(admitted[v], stamp, stamp)
                                      ELSE Recent(admitted[v], stamp)]
                     /\ rejUntil' = [v \in Users |->
                                      IF v = u THEN NoRej ELSE Ahead(rejUntil[v], stamp)]
              ELSE /\ UNCHANGED <<user_last_timestamp, clock, admitted>>
                   /\ rejUntil' = [rejUntil EXCEPT ![u] =
                                     Rejected(@, now, ThWait(user_last_timestamp, u, now))]
    /\ touched' = touched \cup {u}
    /\ UNCHANGED <<config, threads, user_records>>

ThTimeUntilNextAllowed(u) ==
    /\ kind = "throttling"
    /\ LET wait == ThWait(user_last_timestamp, u, clock)
       IN  /\ lastOp' = Op("time_until", u, clock, FALSE, wait, "none", 0)
    /\ touched' = touched \cup {u}
    /\ UNCHANGED <<config, threads, user_records, user_last_timestamp, clock, admitted, rejUntil>>

\* ------------------------------------------- calls running in several threads
\* No operation holds a lock: a thread may be preempted between any two of its steps.
\* A deque reference a thread holds (win) is live while that deque is the one stored
\* under its user; once the entry is deleted or replaced the thread keeps the deque
\* itself (st = "dead", with its items), which the store no longer reaches.
Items(t) ==
    IF threads[t].win.st = "live" THEN user_records[threads[t].user] ELSE threads[t].win.items

\* the other threads' references to the deque stored under u, once u's entry goes
Detach(t, u, th) ==
    [s \in Threads |->
        IF s # t /\ th[s].user = u /\ th[s].win.st = "live"
        THEN [th[s] EXCEPT !.win = [st |-> "dead", items |-> user_records[u]]]
        ELSE th[s]]

Goto(t, pc) == [threads EXCEPT ![t].pc = pc]

\* the call of thread t returns ok resp. wait, or raises err
ReturnWith(t, ok, wait, err, lost) ==
    /\ lastOp' = [Op(threads[t].op, threads[t].user, threads[t].now, ok, wait, err, 0)
                    EXCEPT !.lost = lost]
    /\ threads' = [threads EXCEPT ![t] = Idle]

Return(t, ok, err) == ReturnWith(t, ok, 0, err, FALSE)

\* where the caller of _cleanup_window goes on
AfterCleanup(t) ==
    CASE threads[t].op = "record" -> "r_in"
      [] threads[t].op = "can_send" -> "s_in"
      [] threads[t].op = "time_until" -> "w_in"

\* the operations a thread calls: all three of the sliding window, record_message of
\* the throttle
ThreadOps == IF Sliding THEN {"record", "can_send", "time_until"} ELSE {"record"}

Histories == <<admitted, touched, rejUntil>>

\* an operation for u is called in thread t
Call(t, u) ==
    /\ threads[t].pc = "idle"
    /\ \E op \in ThreadOps :
          threads' = [threads EXCEPT ![t] = [Idle EXCEPT !.pc = "now", !.op = op, !.user = u]]
    /\ touched' = touched \cup {u}
    /\ UNCHANGED <<config, user_records, user_last_timestamp, clock, lastOp, admitted, rejUntil>>

\* now = time.time(), in the operation resp. in the can_send_message record_message calls
ReadClock(t) ==
    /\ threads[t].pc = "now"
    /\ threads' = [threads EXCEPT ![t].now = clock,
                                   ![t].pc = IF Sliding THEN "c_in" ELSE "t_in"]
    /\ UNCHANGED <<config, user_records, user_last_timestamp, clock, lastOp, Histories>>

\* _cleanup_window: if user_id not in self.user_records: return
SwCleanupIn(t) ==
    /\ threads[t].pc = "c_in"
    /\ threads' = Goto(t, IF threads[t].user \in DOMAIN user_records
                          THEN "c_get" ELSE AfterCleanup(t))
    /\ UNCHANGED <<config, user_records, user_last_timestamp, clock, lastOp, Histories>>

\* window = self.user_records[user_id]
SwCleanupGet(t) ==
    /\ threads[t].pc = "c_get"
    /\ IF threads[t].user \in DOMAIN user_records
       THEN /\ threads' = [threads EXCEPT ![t].pc = "c_loop",
                                           ![t].win = [st |-> "live", items |-> <<>>]]
            /\ UNCHANGED lastOp
       ELSE Return(t, FALSE, "KeyError")
    /\ UNCHANGED <<config, user_records, user_last_timestamp, clock, Histories>>

\* while window ...
SwLoopTest(t) ==
    /\ threads[t].pc = "c_loop"
    /\ threads' = Goto(t, IF Items(t) # <<>> THEN "c_head" ELSE "c_empty")
    /\ UNCHANGED <<config, user_records, user_last_timestamp, clock, lastOp, Histories>>

\* ... and (current_time - window[0]) >= self.window_size
SwLoopHead(t) ==
    /\ threads[t].pc = "c_head"
    /\ IF Items(t) = <<>>
       THEN Return(t, FALSE, "IndexError")
       ELSE /\ threads' = Goto(t, IF Expired(Head(Items(t)), threads[t].now)
                                  THEN "c_pop" ELSE "c_empty")
            /\ UNCHANGED lastOp
    /\ UNCHANGED <<config, user_records, user_last_timestamp, clock, Histories>>

\* window.popleft()
SwPopLeft(t) ==
    /\ threads[t].pc = "c_pop"
    /\ IF Items(t) = <<>>
       THEN /\ Return(t, FALSE, "IndexError")
            /\ UNCHANGED user_records
       ELSE /\ IF threads[t].win.st = "live"
               THEN /\ user_records' = DictPut(user_records, threads[t].user, Tail(Items(t)))
                    /\ threads' = Goto(t, "c_loop")
               ELSE /\ threads' = [threads EXCEPT ![t].pc = "c_loop",
                                                   ![t].win.items = Tail(Items(t))]
                    /\ UNCHANGED user_records
            /\ UNCHANGED lastOp
    /\ UNCHANGED <<config, user_last_timestamp, clock, Histories>>

\* if not window:
SwEmptyTest(t) ==
    /\ threads[t].pc = "c_empty"
    /\ threads' = [threads EXCEPT ![t].pc = IF Items(t) = <<>> THEN "c_del"
                                            ELSE AfterCleanup(t),
                                   ![t].win = NoRef]
    /\ UNCHANGED <<config, user_records, user_last_timestamp, clock, lastOp, Histories>>

\* del self.user_records[user_id]
SwDelete(t) ==
    /\ threads[t].pc = "c_del"
    /\ IF threads[t].user \in DOMAIN user_records
       THEN /\ user_records' = DictDel(user_records, threads[t].user)
            /\ threads' = [Detach(t, threads[t].user, threads)
                             EXCEPT ![t].pc = AfterCleanup(t)]
            /\ UNCHANGED lastOp
       ELSE /\ Return(t, FALSE, "KeyError")
            /\ UNCHANGED user_records
    /\ UNCHANGED <<config, user_last_timestamp, clock, Histories>>

\* record_message: if user_id not in self.user_records:
SwRecordIn(t) ==
    /\ threads[t].pc = "r_in"
    /\ threads' = Goto(t, IF threads[t].user \notin DOMAIN user_records THEN "r_new" ELSE "r_len")
    /\ UNCHANGED <<config, user_records, user_last_timestamp, clock, lastOp, Histories>>

\* self.user_records[user_id] = deque()
SwRecordNew(t) ==
    /\ threads[t].pc = "r_new"
    /\ user_records' = DictPut(user_records, threads[t].user, <<>>)
    /\ threads' = [(IF threads[t].user \in DOMAIN user_records
                     THEN Detach(t, threads[t].user, threads) ELSE threads)
                    EXCEPT ![t].pc = "r_len"]
    /\ UNCHANGED <<config, user_last_timestamp, clock, lastOp, Histories>>

\* if len(self.user_records[user_id]) < self.max_requests: ... return False
SwRecordLen(t) ==
    /\ threads[t].pc = "r_len"
    /\ IF threads[t].user \notin DOMAIN user_records
       THEN Return(t, FALSE, "KeyError")
       ELSE IF SwHasRoom(user_records[threads[t].user])
            THEN threads' = Goto(t, "r_get") /\ UNCHANGED lastOp
            ELSE Return(t, FALSE, "none")
    /\ UNCHANGED <<config, user_records, user_last_timestamp, clock, Histories>>

\* self.user_records[user_id] of the append statement
SwAppendGet(t) ==
    /\ threads[t].pc = "r_get"
    /\ IF threads[t].user \in DOMAIN user_records
       THEN /\ threads' = [threads EXCEPT ![t].pc = "r_app",
                                           ![t].win = [st |-> "live", items |-> <<>>]]
            /\ UNCHANGED lastOp
       ELSE Return(t, FALSE, "KeyError")
    /\ UNCHANGED <<config, user_records, user_last_timestamp, clock, Histories>>

\* .append(now); return True
SwAppend(t) ==
    /\ threads[t].pc = "r_app"
    /\ IF threads[t].win.st = "live"
       THEN user_records' = DictPut(user_records, threads[t].user,
                                    Append(Items(t), threads[t].now))
       ELSE UNCHANGED user_records
    /\ ReturnWith(t, TRUE, 0, "none", threads[t].win.st # "live")
    /\ admitted' = [admitted EXCEPT ![threads[t].user] = Remember(@, threads[t].now, clock)]
    /\ UNCHANGED <<config, user_last_timestamp, clock, touched, rejUntil>>

\* can_send_message: return user_id not in self.user_records or ...
SwCanIn(t) ==
    /\ threads[t].pc = "s_in"
    /\ IF threads[t].user \notin DOMAIN user_records
       THEN Return(t, TRUE, "none")
       ELSE threads' = Goto(t, "s_len") /\ UNCHANGED lastOp
    /\ UNCHANGED <<config, user_records, user_last_timestamp, clock, Histories>>

\* ... len(self.user_records[user_id]) < self.max_requests
SwCanLen(t) ==
    /\ threads[t].pc = "s_len"
    /\ IF threads[t].user \notin DOMAIN user_records
       THEN Return(t, FALSE, "KeyError")
       ELSE Return(t, SwHasRoom(user_records[threads[t].user]), "none")
    /\ UNCHANGED <<config, user_records, user_last_timestamp, clock, Histories>>

\* time_until_next_allowed: if user_id not in self.user_records: return 0.0
SwWaitIn(t) ==
    /\ threads[t].pc = "w_in"
    /\ IF threads[t].user \notin DOMAIN user_records
       THEN Return(t, FALSE, "none")
       ELSE threads' = Goto(t, "w_get") /\ UNCHANGED lastOp
    /\ UNCHANGED <<config, user_records, user_last_timestamp, clock, Histories>>

\* window = self.user_records[user_id]
SwWaitGet(t) ==
    /\ threads[t].pc = "w_get"
    /\ IF threads[t].user \in DOMAIN user_records
       THEN /\ threads' = [threads EXCEPT ![t].pc = "w_head",
                                           ![t].win = [st |-> "live", items |-> <<>>]]
            /\ UNCHANGED lastOp
       ELSE Return(t, FALSE, "KeyError")
    /\ UNCHANGED <<config, user_records, user_last_timestamp, clock, Histories>>

\* oldest_timestamp = window[0]; return max(self.window_size - elapsed, 0.0)
SwWaitHead(t) ==
    /\ threads[t].pc = "w_head"
    /\ IF Items(t) = <<>>
       THEN Return(t, FALSE, "IndexError")
       ELSE ReturnWith(t, FALSE,
                       Max2(window_size - (threads[t].now - Head(Items(t))), 0),
                       "none", FALSE)
    /\ UNCHANGED <<config, user_records, user_last_timestamp, clock, Histories>>

\* can_send_message: if user_id not in self.user_last_timestamp: return True
ThIn(t) ==
    /\ threads[t].pc = "t_in"
    /\ threads' = Goto(t, IF threads[t].user \notin DOMAIN user_last_timestamp
                          THEN "t_set" ELSE "t_get")
    /\ UNCHANGED <<config, user_records, user_last_timestamp, clock, lastOp, Histories>>

\* elapsed = now - self.user_last_timestamp[user_id]; return elapsed >= self.min_interval
ThElapsed(t) ==
    /\ threads[t].pc = "t_get"
    /\ IF ThCanSend(user_last_timestamp, threads[t].user, threads[t].now)
       THEN threads' = Goto(t, "t_set") /\ UNCHANGED lastOp
       ELSE Return(t, FALSE, "none")
    /\ UNCHANGED <<config, user_records, user_last_timestamp, clock, Histories>>

\* self.user_last_timestamp[user_id] = time.time(); return True
ThSet(t) ==
    /\ threads[t].pc = "t_set"
    /\ user_last_timestamp' = DictPut(user_last_timestamp, threads[t].user, clock)
    /\ Return(t, TRUE, "none")
    /\ admitted' = [admitted EXCEPT ![threads[t].user] = Remember(@, clock, clock)]
    /\ UNCHANGED <<config, user_records, clock, touched, rejUntil>>

ThreadStep(t) ==
    \/ \E u \in ThreadUsers : Call(t, u)
    \/ ReadClock(t)
    \/ SwCleanupIn(t)
    \/ SwCleanupGet(t)
    \/ SwLoopTest(t)
    \/ SwLoopHead(t)
    \/ SwPopLeft(t)
    \/ SwEmptyTest(t)
    \/ SwDelete(t)
    \/ SwRecordIn(t)
    \/ SwRecordNew(t)
    \/ SwRecordLen(t)
    \/ SwAppendGet(t)
    \/ SwAppend(t)
    \/ SwCanIn(t)
    \/ SwCanLen(t)
    \/ SwWaitIn(t)
    \/ SwWaitGet(t)
    \/ SwWaitHead(t)
    \/ ThIn(t)
    \/ ThElapsed(t)
    \/ ThSet(t)

\* ----------------------------------------------------------- specifications
Next ==
    \/ Tick
    \/ \E u \in Users : SwCanSendMessage(u)
    \/ \E u \in Users : SwRecordMessage(u)
    \/ \E u \in Users : SwTimeUntilNextAllowed(u)
    \/ \E u \in Users : ThCanSendMessage(u)
    \/ \E u \in Users : ThRecordMessage(u)
    \/ \E u \in Users : ThTimeUntilNextAllowed(u)

Spec == Init /\ [][Next]_vars

\* calls running in the threads, preempted between any two steps
InitThreads ==
    /\ \/ \E ws \in 1..MaxThreadParam, mr \in 1..MaxThreadParam : SlidingWindowInit(ws, mr)
       \/ \E mi \in 1..MaxThreadParam : ThrottlingInit(mi)
    /\ HistoryInit

NextThreads ==
    \/ (clock < MaxThreadTime /\ Tick)
    \/ \E t \in Threads : ThreadStep(t)

SpecThreads == InitThreads /\ [][NextThreads]_vars

\* the same operations on limiters constructed from any arguments
SpecAnyConfig == InitAny /\ [][Next]_vars

\* sequential calls on a wall clock that can also be set back
NextBackward ==
    \/ clock < MaxBackTime /\ Tick
    \/ \E u \in Users : SwCanSendMessage(u)
    \/ \E u \in Users : SwRecordMessage(u)
    \/ \E u \in Users : SwTimeUntilNextAllowed(u)
    \/ \E u \in Users : ThCanSendMessage(u)
    \/ \E u \in Users : ThRecordMessage(u)
    \/ \E u \in Users : ThTimeUntilNextAllowed(u)
    \/ ClockStepsBack

SpecBackward == Init /\ [][NextBackward]_vars

\* ------------------------------------------------------------------- claims
\* C1: sliding window, sequential calls: for every identity and every instant t, at most
\* max_requests admitted records have a timestamp in (t - window_size, t].  admitted[u]
\* holds exactly the admitted timestamps in (clock - window_size, clock], and the clock
\* passes through every instant.
C1_WindowBound ==
    Sliding => \A u \in Users : Len(admitted[u]) <= max_requests

\* a window filled by records admitted at different instants
C1_Witness ==
    /\ Sliding /\ max_requests = 2
    /\ lastOp.op = "record" /\ ~lastOp.ok
    /\ Len(admitted[lastOp.user]) = 2
    /\ admitted[lastOp.user][1] < admitted[lastOp.user][2]

\* C2: sliding window: record_message at now returns true iff fewer than max_requests
\* earlier admitted records of the identity have a timestamp e with now - e < window_size;
\* a record exactly window_size old does not count.
C2_RecordIffRoom ==
    (Sliding /\ lastOp.op = "record") => (lastOp.ok <=> lastOp.inWindow < max_requests)

\* a record admitted at the instant the only earlier one is exactly window_size old
C2_Witness ==
    /\ Sliding /\ max_requests = 1 /\ window_size = 2
    /\ lastOp.op = "record" /\ lastOp.ok /\ lastOp.now = 2
    /\ lastOp.popped = 1 /\ lastOp.inWindow = 0

\* C3: fixed interval: can_send_message and record_message at now return true iff the
\* identity has no admitted record or now - (its last admitted timestamp) >= min_interval;
\* so two admitted records of one identity are never less than min_interval apart.
C3_ThrottleIffElapsed ==
    Throttling =>
        /\ lastOp.op \in {"can_send", "record"} => (lastOp.ok <=> lastOp.inWindow = 0)
        /\ \A u \in Users : Len(admitted[u]) <= 1

\* can_send_message answering true exactly min_interval after the stored timestamp
C3_Witness ==
    /\ Throttling /\ lastOp.op = "can_send" /\ lastOp.ok
    /\ lastOp.user \in DOMAIN user_last_timestamp
    /\ lastOp.now - user_last_timestamp[lastOp.user] = min_interval

\* C4: two concurrent record_message calls on one identity are never both admitted into
\* one free slot: under every interleaving of their steps at most max_requests records
\* are admitted within any window_size, and admitted records of the fixed-interval
\* limiter are at least min_interval apart.
C4_NoDoubleAdmit ==
    /\ Sliding => \A u \in Users : Len(admitted[u]) <= max_requests
    /\ Throttling => \A u \in Users : Len(admitted[u]) <= 1

\* the documented configuration domain
ValidConfig ==
    /\ Sliding => (window_size > 0 /\ max_requests >= 1)
    /\ Throttling => min_interval > 0

\* C5: a sliding-window limiter with window_size <= 0 or max_requests < 1, or a
\* fixed-interval limiter with min_interval <= 0, is rejected at construction: no such
\* instance exists and none of its operations can be invoked.
C5_InvalidConfigRejected == lastOp.op # "none" => ValidConfig

\* C6: whenever record_message(identity) returns false at now, time_until_next_allowed
\* (identity) at the same now returns a value > 0.
C6_RejectionHasWait ==
    (lastOp.op = "time_until" /\ lastOp.afterRej) => lastOp.wait > 0

\* time_until_next_allowed called right after a rejected record, one tick before the
\* oldest entry leaves the window
C6_Witness ==
    /\ Sliding /\ lastOp.op = "time_until" /\ lastOp.afterRej /\ lastOp.wait = 1

\* C7: for an identity no operation was ever called for, whatever the other identities
\* did, can_send_message returns true and time_until_next_allowed returns 0, without error.
C7_UnknownIdentity ==
    lastOp.fresh =>
        /\ lastOp.err = "none"
        /\ lastOp.op = "can_send" => lastOp.ok
        /\ lastOp.op = "time_until" => lastOp.wait = 0

\* the first call for an identity, while another identity is inside its wait
C7_Witness ==
    /\ lastOp.fresh /\ lastOp.op = "time_until"
    /\ \E v \in Users \ {lastOp.user} : rejUntil[v].until > clock

\* C8: a record_message call that returns false leaves the store as it was: no identity's
\* sequence changes, the call's cleanup removes nothing, the last-timestamp map is unchanged.
C8_RejectionNoMutation ==
    [][(lastOp'.op = "record" /\ ~lastOp'.ok) =>
          /\ user_records' = user_records
          /\ user_last_timestamp' = user_last_timestamp
          /\ lastOp'.popped = 0]_vars

\* a rejected record on a store that holds both identities
C8_Witness ==
    /\ Sliding /\ lastOp.op = "record" /\ ~lastOp.ok
    /\ DOMAIN user_records = Users /\ clock > 0

\* what time_until_next_allowed(u) returns when called in this state
WaitNow(u) ==
    IF Sliding
    THEN SwWait(CleanupWindow(user_records, u, clock), u, clock)
    ELSE ThWait(user_last_timestamp, u, clock)

\* the instant the claim names: oldest stored entry + window_size, resp. last timestamp
\* + min_interval, has been reached
BoundaryReached(u) ==
    IF Sliding
    THEN u \in DOMAIN user_records /\ user_records[u] # <<>>
         /\ clock >= Head(user_records[u]) + window_size
    ELSE u \in DOMAIN user_last_timestamp /\ clock >= user_last_timestamp[u] + min_interval

\* C10: for an identity with no further admitted record, time_until_next_allowed is
\* non-increasing as the clock advances, always >= 0, exactly 0 once the clock reaches
\* (oldest stored entry + window_size) resp. (last timestamp + min_interval), and 0 after.
C10_WaitDecays ==
    [][\A u \in Users :
          ~(lastOp'.op = "record" /\ lastOp'.ok /\ lastOp'.user = u) =>
              /\ WaitNow(u)' <= WaitNow(u)
              /\ WaitNow(u)' >= 0
              /\ BoundaryReached(u)' => WaitNow(u)' = 0]_vars

\* C9: once record_message(identity) returned false at t0, every record_message(identity)
\* at a time t with t0 <= t < t0 + (time_until_next_allowed at t0) returns false too,
\* whatever can_send_message, time_until_next_allowed and rejected records come between.
C9_RejectedUntilWaitElapsed ==
    (lastOp.op = "record" /\ lastOp.ok) => ~lastOp.barred

\* a record rejected again at a later instant inside the wait of an earlier rejection
C9_Witness ==
    /\ lastOp.op = "record" /\ ~lastOp.ok /\ lastOp.barred
    /\ rejUntil[lastOp.user].at < lastOp.now

\* number of entries stored for u
StoredCount(u) == IF u \in DOMAIN user_records THEN Len(user_records[u]) ELSE 0

\* C11: sliding window: at any instant, also one at which the clock has advanced and no
\* operation was called since, the number of entries stored for an identity equals the
\* number of its admitted records with a timestamp in (now - window_size, now].
C11_StoredEqualsRecentAlways ==
    Sliding => \A u \in Users : StoredCount(u) = Len(admitted[u])

\* C11 as amended: when an operation for the identity has just returned, the number of
\* entries stored for it equals the number of its admitted records in the window.
C11_StoredEqualsRecentAfterCall ==
    (Sliding /\ lastOp.op # "none") =>
        StoredCount(lastOp.user) = Len(admitted[lastOp.user])

\* a call whose cleanup removed one aged entry and left one that is still in the window
C11_Witness ==
    /\ Sliding /\ lastOp.op = "can_send" /\ lastOp.popped = 1
    /\ StoredCount(lastOp.user) = 1

\* every entry stored for u is at least window_size old
AllAgedOut(u) ==
    /\ u \in DOMAIN user_records
    /\ \A i \in 1..Len(user_records[u]) : clock - user_records[u][i] >= window_size

\* C12: sliding window: once all of an identity's entries have aged out of the window,
\* its record is removed from the store and it no longer counts as an active identity.
C12_AgedOutRemoved ==
    Sliding => \A u \in Users : ~AllAgedOut(u)

\* C12 as amended: the record is removed by the next operation called for the identity
\* once all its entries have aged out; until that call it stays in user_records.
C12_AgedOutRemovedByCall ==
    (Sliding /\ lastOp.op # "none") =>
        /\ ~AllAgedOut(lastOp.user)
        /\ (lastOp.inWindow = 0 /\ ~(lastOp.op = "record" /\ lastOp.ok))
              => lastOp.user \notin DOMAIN user_records

\* a call that removed the identity's last entries and with them its record, while the
\* other identity stays stored
C12_Witness ==
    /\ Sliding /\ lastOp.op = "time_until" /\ lastOp.popped = 2
    /\ DOMAIN user_records = Users \ {lastOp.user}

\* C16: sliding window, sequential calls, max_requests >= 1: between operations every
\* identity in user_records maps to between 1 and max_requests timestamps in
\* non-decreasing order; none maps to an empty sequence.
C16_StoreInvariant ==
    Sliding => \A u \in DOMAIN user_records :
        /\ Len(user_records[u]) >= 1
        /\ Len(user_records[u]) <= max_requests
        /\ \A i \in 1..(Len(user_records[u]) - 1) : user_records[u][i] <= user_records[u][i + 1]

\* a full sequence whose timestamps differ
C16_Witness ==
    /\ Sliding /\ max_requests = 2
    /\ \E u \in DOMAIN user_records :
          Len(user_records[u]) = 2 /\ user_records[u][1] < user_records[u][2]

\* C13: sliding window, any max_requests >= 1: whenever can_send_message(identity) is
\* true at some time, time_until_next_allowed(identity) at that same time returns 0.
C13_AllowedMeansZeroWait ==
    [][(/\ Sliding
        /\ lastOp.op = "can_send" /\ lastOp.ok
        /\ lastOp'.op = "time_until" /\ lastOp'.user = lastOp.user) =>
            lastOp'.wait = 0]_vars

\* C14: both limiters: when record_message(identity) returned false at t0 and the wait
\* hint at t0 was w, a record_message(identity) at t0 + w with no record admitted in
\* between returns true, and one at any time strictly between t0 and t0 + w returns false.
C14_WaitHintExact ==
    lastOp.op = "record" =>
        /\ lastOp.due => lastOp.ok
        /\ lastOp.barred => ~lastOp.ok

\* a record admitted at the very instant an earlier rejection named, on a sliding
\* window that still holds a younger entry
C14_Witness ==
    /\ Sliding /\ lastOp.op = "record" /\ lastOp.ok /\ lastOp.due /\ lastOp.inWindow = 1

\* the same on the throttle, the rejection's hint being more than one tick
C14_WitnessThrottle ==
    /\ Throttling /\ lastOp.op = "record" /\ lastOp.ok /\ lastOp.due
    /\ min_interval > 1

\* the timestamps stored for u that are less than window_size old at time t
Unexpired(records, u, t) ==
    IF u \in DOMAIN records
    THEN SelectSeq(records[u], LAMBDA e : t - e < window_size)
    ELSE <<>>

\* window is what is left of before after dropping entries from its head
IsSuffix(window, before) ==
    /\ Len(window) <= Len(before)
    /\ window = SubSeq(before, Len(before) - Len(window) + 1, Len(before))

\* what the three operations would answer for u at time t on the given stores
Answers(records, last, u, t) ==
    IF Sliding
    THEN LET cleaned == CleanupWindow(records, u, t)
         IN  <<SwUnderLimit(cleaned, u), SwRecordResult(cleaned, u), SwWait(cleaned, u, t)>>
    ELSE <<ThCanSend(last, u, t), ThCanSend(last, u, t), ThWait(last, u, t)>>

\* C15: can_send_message and time_until_next_allowed are free of observable side effects
\* on both limiters: such a call changes neither what any call returns from then on nor
\* the unexpired stored timestamps; it adds no timestamp and creates no store entry. The
\* entries of the other identities stay as they are, those of the identity asked about
\* lose only a head that is expired now and at every later time.
C15_QueriesSideEffectFree ==
    [][lastOp'.op \in {"can_send", "time_until"} =>
          /\ clock' = clock
          /\ user_last_timestamp' = user_last_timestamp
          /\ admitted' = admitted
          /\ DOMAIN user_records' \subseteq DOMAIN user_records
          /\ \A v \in DOMAIN user_records' \ {lastOp'.user} : user_records'[v] = user_records[v]
          /\ LET u == lastOp'.user
             IN  /\ u \in DOMAIN user_records' => IsSuffix(user_records'[u], user_records[u])
                 /\ \A t \in clock..MaxTime :
                       /\ Unexpired(user_records', u, t) = Unexpired(user_records, u, t)
                       /\ Answers(user_records', user_last_timestamp', u, t)
                            = Answers(user_records, user_last_timestamp, u, t)]_vars

\* a query whose cleanup dropped an aged entry and kept a younger one, the other identity
\* never having been asked about
C15_Witness ==
    /\ Sliding /\ lastOp.op = "time_until" /\ lastOp.popped = 1
    /\ StoredCount(lastOp.user) = 1
    /\ touched = {lastOp.user}

\* C17: throttle: an identity's entry is deleted once its state has expired: after an
\* operation at a time now with now - last_timestamp >= min_interval the identity is no
\* longer a key of user_last_timestamp, unless that operation admitted a new record.
C17_ExpiredEntryDeleted ==
    (Throttling /\ lastOp.op # "none" /\ ~(lastOp.op = "record" /\ lastOp.ok)) =>
        (lastOp.user \in DOMAIN user_last_timestamp =>
            lastOp.now - user_last_timestamp[lastOp.user] < min_interval)

\* the entry stored for b, or a mark for its absence
Stored(records, b) == IF b \in DOMAIN records THEN <<records[b]>> ELSE <<>>

\* what an operation for identity a at time now answers, computed from nothing but the
\* admitted records of a and the clock
FromHistory(op, a, now) ==
    LET recent == Recent(admitted[a], now)
    IN  [ok |-> IF op = "time_until" THEN FALSE
                ELSE IF Sliding THEN Len(recent) < max_requests ELSE recent = <<>>,
         wait |-> IF op # "time_until" \/ recent = <<>> THEN 0
                  ELSE IF Sliding THEN Horizon - (now - recent[1])
                  ELSE Horizon - (now - recent[Len(recent)])]

\* C20: both limiters: an operation for identity A leaves the stored state of every other
\* identity B as it was, and what an operation for an identity returns depends only on
\* the clock and on that identity's own history of admitted record_message calls.
C20_Isolation ==
    [][lastOp'.op # "none" =>
          LET a == lastOp'.user
          IN  /\ \A b \in Users \ {a} :
                    /\ Stored(user_records', b) = Stored(user_records, b)
                    /\ Stored(user_last_timestamp', b) = Stored(user_last_timestamp, b)
                    /\ admitted'[b] = Recent(admitted[b], clock')
              /\ lastOp'.ok = FromHistory(lastOp'.op, a, lastOp'.now).ok
              /\ lastOp'.wait = FromHistory(lastOp'.op, a, lastOp'.now).wait]_vars

\* a record admitted for one identity while the other one is inside its interval
C20_Witness ==
    /\ Throttling /\ lastOp.op = "record" /\ lastOp.ok
    /\ \E b \in DOMAIN user_last_timestamp \ {lastOp.user} :
          /\ clock - user_last_timestamp[b] < min_interval
          /\ user_last_timestamp[b] < user_last_timestamp[lastOp.user]

\* the same on the sliding window: a rejection for one identity, the other's window empty
C20_WitnessSliding ==
    /\ Sliding /\ lastOp.op = "record" /\ ~lastOp.ok
    /\ DOMAIN user_records = {lastOp.user} /\ touched = Users

\* C18: both limiters: also when a clock read is smaller than a stored timestamp,
\* time_until_next_allowed returns a value in [0, window_size] resp. [0, min_interval].
C18_WaitWithinBound ==
    lastOp.op = "time_until" => (lastOp.wait >= 0 /\ lastOp.wait <= Horizon)

\* C19: sliding window, concurrent calls for one identity: in every interleaving of the
\* steps of can_send_message, record_message and time_until_next_allowed each call
\* returns a result, none raises a missing-key or empty-sequence error, and no admitted
\* timestamp is lost by being appended to a sequence already deleted from the store.
C19_CallsWellDefined ==
    Sliding => (lastOp.err = "none" /\ ~lastOp.lost)

====
